---- MODULE Spec2Model ----
(***************************************************************************)
(* WTC parking bot: reservations, waitlist, lottery queue.                 *)
(*                                                                         *)
(* The storage layer is the SQLite schema of src/src/database.js.  Every   *)
(* SQL statement is one atomic step; the JavaScript between two awaits is  *)
(* part of the step that follows the awaited statement.  Handlers of       *)
(* different Telegram updates interleave at every await.                   *)
(*                                                                         *)
(* Time is counted in minutes since Sunday 00:00 of the week in which the  *)
(* model starts; a date is a day number counted from that Sunday, so that  *)
(* moment's day() of a date d is d % 7 (0 = Sunday ... 6 = Saturday).      *)
(***************************************************************************)
EXTENDS Integers, Sequences, FiniteSets, TLC

\* ------------------------------------------------------------------ bounds
NumUsers == 3
MaxTasks == 2
MaxOps == 3
\* Last day on which a request is sent and last date asked for, when the
\* date rules are explored on their own.
LastDay == 12
LastDate == 26

\* --------------------------------------------------------- model universe
Users == 1..NumUsers
Tasks == 1..MaxTasks
\* Monday of the upcoming week and Monday of the week after it.
Dates == {8, 15}
\* Flex pool configured by the supervisor before the model starts.
InitialSpots == {1, 2}
\* The clock starts on Friday 17:05, inside the lottery period, and advances
\* in steps of TickMinutes until Friday 17:15, when the period is over.
StartNow == 8225
TickMinutes == 10
EndNow == 8235

NoSpot == 0
NoUser == 0

VARIABLES
    now,                 \* wall clock (minutes)
    frontend,            \* "webhook" (webhookBot.js) or "polling" (bot.js)
    parking_spots,       \* table parking_spots (active flex spots)
    fixed_spots,         \* table fixed_spots (spots with an owner)
    fixed_spot_releases, \* table fixed_spot_releases
    reservations,        \* table reservations
    waitlist,            \* table waitlist
    queues,              \* QueueManager.queues: date -> buffered users
    processingTimeouts,  \* QueueManager.processingTimeouts (map keys)
    armed,               \* setTimeout timers not yet fired
    offers,              \* "add me to the waitlist" keyboards on screen
    spotOffers,          \* "take the freed spot" keyboards on screen
    task,                \* handler invocations in flight
    opsStarted,          \* number of handler invocations started
    weeklyResetDue,      \* when the setInterval of setupScheduler fires next
    weeklyResets         \* weekly resets executed so far (the log lines)

vars == <<now, frontend, parking_spots, fixed_spots, fixed_spot_releases, reservations,
          waitlist, queues, processingTimeouts, armed, offers, spotOffers,
          task, opsStarted, weeklyResetDue, weeklyResets>>

\* ------------------------------------------------------------ time (moment)
DayOf(t) == t \div 1440
HourOf(t) == (t % 1440) \div 60
MinuteOf(t) == t % 60
Dow(d) == d % 7
SetDay(d, n) == d + n - Dow(d)

\* Mutant: only Sunday counts as weekend.
isWeekend_SundayOnly(d) == Dow(d) = 0

\* targetDate.day() === 0 || targetDate.day() === 6
isWeekend(d) == Dow(d) = 0 \/ Dow(d) = 6

\* Mutant: the period is the whole hour from 17:00.
isInQueuePeriod_WholeHour(t) ==
    /\ Dow(DayOf(t)) = 5
    /\ HourOf(t) = 17

isInQueuePeriod(t) ==
    /\ Dow(DayOf(t)) = 5
    /\ HourOf(t) = 17
    /\ MinuteOf(t) < 15

\* Mutant: the next reset is the Friday of the week of now.
NextResetDay_ThisWeek(t) == SetDay(DayOf(t), 5)

\* Day of the "next reset" Friday of isNextWeekReservation.
NextResetDay(t) ==
    IF Dow(DayOf(t)) = 5 /\ HourOf(t) < 17
    THEN DayOf(t)
    ELSE SetDay(DayOf(t), 5 + 7)

isNextWeekReservation(t, targetDate) ==
    LET nextReset == NextResetDay(t)
        nextWeekStart == SetDay(nextReset + 3, 1)
        nextWeekEnd == SetDay(nextReset + 7, 5)
    IN  nextWeekStart <= targetDate /\ targetDate <= nextWeekEnd

\* now.isAfter(lastReset): lastReset is a Friday 17:00 that is never later
\* than now, compared at the resolution of the model clock.
isNextWeekBookingAllowed(t) ==
    LET lastReset ==
            IF Dow(DayOf(t)) = 5 /\ HourOf(t) >= 17
            THEN DayOf(t) * 1440 + 17 * 60
            ELSE SetDay(DayOf(t), 5 - 7) * 1440 + 17 * 60
    IN  t > lastReset

\* bot.js: which dates the polling front end accepts.
isValidReservationTime(t, targetDate) ==
    LET today == DayOf(t)
        startOfCurrentWeek ==
            IF Dow(today) = 0 THEN today + 1
            ELSE IF Dow(today) = 6 THEN today + 2
            ELSE SetDay(today, 1)
        endOfCurrentWeek == SetDay(startOfCurrentWeek, 5)
        startOfNextWeek == startOfCurrentWeek + 7
        endOfNextWeek == endOfCurrentWeek + 7
    IN  IF isWeekend(targetDate) THEN FALSE
        ELSE IF startOfCurrentWeek <= targetDate /\ targetDate <= endOfCurrentWeek
             THEN TRUE
        ELSE IF startOfNextWeek <= targetDate /\ targetDate <= endOfNextWeek
             THEN Dow(today) = 5 /\ HourOf(t) >= 17
        ELSE FALSE

\* ------------------------------------------------------- SQL: spot ordering
\* parking_spots.number is TEXT, so ORDER BY number compares the decimal
\* strings character by character.
RECURSIVE Digits(_)
Digits(n) == IF n < 10 THEN <<n>> ELSE Append(Digits(n \div 10), n % 10)

RECURSIVE SeqLess(_, _)
SeqLess(a, b) ==
    IF a = <<>> THEN b # <<>>
    ELSE IF b = <<>> THEN FALSE
    ELSE IF Head(a) # Head(b) THEN Head(a) < Head(b)
    ELSE SeqLess(Tail(a), Tail(b))

TextLess(a, b) == SeqLess(Digits(a), Digits(b))

\* The first spot by numeric value instead of by the text of its number.
FirstByNumber_Numeric(S) == CHOOSE s \in S : \A o \in S : s <= o

FirstByNumber(S) == CHOOSE s \in S : \A o \in S \ {s} : TextLess(s, o)

\* ------------------------------------------------------ SQL: reservations
\* SELECT * FROM reservations WHERE user_id = ? AND date = ?
ReservationsOf(res, u, d) == {r \in res : r.user_id = u /\ r.date = d}

\* The lookup that finds the reservation of any user for the date.
getReservation_AnyUser(res, u, d) ==
    IF {r \in res : r.date = d} = {} THEN NoSpot
    ELSE (CHOOSE r \in {x \in res : x.date = d} : TRUE).spot_number

getReservation(res, u, d) ==
    IF ReservationsOf(res, u, d) = {} THEN NoSpot
    ELSE (CHOOSE r \in ReservationsOf(res, u, d) : TRUE).spot_number

SpotReserved(res, d, s) == \E r \in res : r.date = d /\ r.spot_number = s

\* Mutants of the two UNIQUE constraints of table reservations.
InsertAllowed_NoSpotUnique(res, u, d, s) ==
    ~ \E r \in res : r.user_id = u /\ r.date = d

InsertAllowed_NoUserUnique(res, u, d, s) ==
    ~ \E r \in res : r.date = d /\ r.spot_number = s

\* UNIQUE(user_id, date) and UNIQUE(date, spot_number)
InsertAllowed(res, u, d, s) ==
    /\ ~ \E r \in res : r.user_id = u /\ r.date = d
    /\ ~ \E r \in res : r.date = d /\ r.spot_number = s

\* The INSERT INTO reservations that stores nothing.
createReservation_NotStored(res, u, d, s) == res

\* INSERT INTO reservations ...; the table is unchanged when it is rejected
createReservation(res, u, d, s) ==
    IF InsertAllowed(res, u, d, s)
    THEN res \cup {[user_id |-> u, date |-> d, spot_number |-> s]}
    ELSE res

\* DELETE FROM reservations WHERE user_id = ? AND date = ?
deleteReservation(res, u, d) == res \ ReservationsOf(res, u, d)

\* First query of getAvailableSpot: free flex spots, ORDER BY number LIMIT 1
FreeFlexSpots(res, spots, d) == {s \in spots : ~ SpotReserved(res, d, s)}

\* The released-spots query without its date condition.
getReleasedFixedSpots_AnyDate(rel, d) == {r.spot_number : r \in rel}

\* The released-spots query with the end date left out of the range.
getReleasedFixedSpots_EndExcluded(rel, d) ==
    {r.spot_number : r \in {x \in rel : x.start_date <= d /\ d < x.end_date}}

\* SELECT DISTINCT spot_number FROM fixed_spot_releases
\*  WHERE ? BETWEEN start_date AND end_date
getReleasedFixedSpots(rel, d) ==
    {r.spot_number : r \in {x \in rel : x.start_date <= d /\ d <= x.end_date}}

FreeReleasedSpots(res, rel, d) ==
    {s \in getReleasedFixedSpots(rel, d) : ~ SpotReserved(res, d, s)}

\* ---------------------------------------------------------- SQL: waitlist
WaitlistOf(wl, d) == {w \in wl : w.date = d}

Positions(wl, d) == {w.position : w \in WaitlistOf(wl, d)}

MaxOf(S) == CHOOSE m \in S : \A o \in S : o <= m

\* The position query that always answers 1.
NextPosition_First(wl, d) == 1

\* SELECT COALESCE(MAX(position), 0) + 1 FROM waitlist WHERE date = ?
NextPosition(wl, d) ==
    IF WaitlistOf(wl, d) = {} THEN 1 ELSE MaxOf(Positions(wl, d)) + 1

\* A waitlist table without its UNIQUE constraint.
WaitlistInsertAllowed_Always(wl, u, d) == TRUE

\* UNIQUE(user_id, date) of table waitlist
WaitlistInsertAllowed(wl, u, d) ==
    ~ \E w \in wl : w.user_id = u /\ w.date = d

\* INSERT INTO waitlist ...
insertWaitlist(wl, u, d, p) ==
    IF WaitlistInsertAllowed(wl, u, d)
    THEN wl \cup {[user_id |-> u, date |-> d, position |-> p]}
    ELSE wl

\* SELECT * FROM waitlist WHERE date = ? ORDER BY position LIMIT 1
\* (rows with the same position come back in an order SQL leaves open)
HeadRows(wl, d) ==
    {w \in WaitlistOf(wl, d) : \A o \in WaitlistOf(wl, d) : w.position <= o.position}

\* SELECT position FROM waitlist WHERE user_id = ? AND date = ?
WaitlistRows(wl, u, d) == {w \in wl : w.user_id = u /\ w.date = d}

\* DELETE FROM waitlist WHERE user_id = ? AND date = ?
deleteWaitlist(wl, u, d) == wl \ WaitlistRows(wl, u, d)

\* Mutant: the compaction forgets to move the entries behind.
shiftWaitlist_NoShift(wl, d, p) == wl

\* UPDATE waitlist SET position = position - 1 WHERE date = ? AND position > ?
shiftWaitlist(wl, d, p) ==
    {IF w.date = d /\ w.position > p
     THEN [w EXCEPT !.position = w.position - 1]
     ELSE w : w \in wl}

\* ------------------------------------------------------------ handler state
\* A step of a handler is one SQL statement together with the JavaScript
\* that runs after it up to the next awaited statement; a handler starts
\* with the code up to and including its first statement.
UndefinedSpot == -1

Idle ==
    [kind |-> "none", user |-> NoUser, date |-> 0, pc |-> "idle",
     spot |-> NoSpot, head |-> NoUser, pos |-> 0, order |-> <<>>, idx |-> 0,
     results |-> [u \in Users |-> "none"], k0 |-> 0, wl0 |-> {},
     result |-> "none", spots |-> {}, returned |-> 0, failed |-> {}]

Free(t) == task[t].pc \in {"idle", "done"}

\* A new handler invocation takes the lowest free slot; with serial = TRUE
\* it starts only when no other invocation is in flight.
CanStart(t, serial) ==
    /\ Free(t)
    /\ \A o \in Tasks : o < t => ~ Free(o)
    /\ serial => \A o \in Tasks : Free(o)
    /\ opsStarted < MaxOps

Begin(k, u, d) == [Idle EXCEPT !.kind = k, !.user = u, !.date = d]

\* The handler returns; what it answered is kept until the slot is reused.
Done(rec, res) ==
    [Idle EXCEPT !.kind = rec.kind, !.user = rec.user, !.date = rec.date,
                 !.pc = "done", !.result = res]

\* The requester the current step works for.
CurUser(rec) ==
    IF rec.kind = "lottery" THEN rec.order[rec.idx] ELSE rec.user

DbUnchanged == UNCHANGED <<parking_spots, fixed_spots, fixed_spot_releases, reservations, waitlist>>
QueueUnchanged == UNCHANGED <<queues, processingTimeouts, armed>>
EnvUnchanged == UNCHANGED <<now, frontend, weeklyResetDue, weeklyResets>>

\* Rows that an earlier run left in the database file for date d: users
\* 1..h hold the first h flex spots; when the pool is full, the next w users
\* wait in order and the o users after them still have the keyboard of a
\* waitlist offer on screen.
PersistedRows(d, h, w, o) ==
    /\ reservations = {[user_id |-> u, date |-> d, spot_number |-> u] : u \in 1..h}
    /\ waitlist = {[user_id |-> h + i, date |-> d, position |-> i] : i \in 1..w}
    /\ offers = {<<u, d>> : u \in (h + w + 1)..(h + w + o)}

\* The process starts on a database file; the lottery buffers live in
\* memory and start empty.
Init ==
    /\ now = StartNow
    /\ frontend \in {"webhook", "polling"}
    /\ parking_spots = InitialSpots
    /\ fixed_spots = {}
    /\ fixed_spot_releases = {}
    /\ \E d \in Dates, h \in 0..Cardinality(InitialSpots), w, o \in 0..NumUsers :
         /\ h + w + o <= NumUsers
         /\ w + o > 0 => h = Cardinality(InitialSpots)
         /\ PersistedRows(d, h, w, o)
    /\ queues = [d \in Dates |-> <<>>]
    /\ processingTimeouts = {}
    /\ armed = {}
    /\ spotOffers = {}
    /\ task = [t \in Tasks |-> Idle]
    /\ opsStarted = 0
    /\ weeklyResetDue = now + 60
    /\ weeklyResets = 0

\* The clock advances.
Tick ==
    /\ now + TickMinutes <= EndNow
    /\ now' = now + TickMinutes
    /\ UNCHANGED <<frontend, parking_spots, fixed_spots, fixed_spot_releases, reservations,
                   waitlist, queues, processingTimeouts, armed, offers,
                   spotOffers, task, opsStarted, weeklyResetDue, weeklyResets>>

\* ----------------------------------------------------------- booking request
\* scheduleQueueProcessing: the timer is set for 17:15 of today, or of the
\* same weekday next week when 17:15 has passed.
ProcessTime(t) ==
    LET today1715 == DayOf(t) * 1440 + 17 * 60 + 15
    IN  IF t > today1715 THEN today1715 + 7 * 1440 ELSE today1715

\* Which branch of handleReservation the request takes.
Route(t, d) ==
    IF frontend = "webhook"
    THEN IF d < DayOf(t) THEN "past"
         ELSE IF isWeekend(d) THEN "weekend"
         ELSE IF isNextWeekReservation(t, d)
              THEN IF isInQueuePeriod(t) THEN "queue"
                   ELSE IF isNextWeekBookingAllowed(t) THEN "reserve"
                   ELSE "locked"
         ELSE "reserve"
    ELSE IF ~ isValidReservationTime(t, d) THEN "invalid_time"
         ELSE IF isInQueuePeriod(t) /\ isNextWeekReservation(t, d) THEN "queue"
         ELSE "reserve"

\* Mutant: queue.find never matches (ids compared across types).
InQueue_NeverFound(q, u) == FALSE

\* addToQueue: queue.find(req => req.userId === userId)
InQueue(q, u) == \E i \in 1..Len(q) : q[i] = u

\* Mutant: reserveSpot without the "already reserved" test.
AlreadyReserved_NoCheck(res, u, d) == FALSE

\* reserveSpot / processQueuedReservation: if (existing) return ...
AlreadyReserved(res, u, d) == getReservation(res, u, d) # NoSpot

\* addToQueue (no await inside): the first request for a date creates the
\* buffer and schedules its processing.  The "queued" message ends with
\* "Posición en cola: ${queue.length}"; the "Ya estás en la cola" message
\* names no position (pos stays 0).
AddToQueue(t, rec) ==
    IF InQueue(queues[rec.date], rec.user)
    THEN /\ task' = [task EXCEPT ![t] = Done(rec, "already_queued")]
         /\ UNCHANGED <<queues, processingTimeouts, armed>>
    ELSE /\ task' = [task EXCEPT ![t] =
                       [Done(rec, "queued") EXCEPT !.pos = Len(queues[rec.date]) + 1]]
         /\ queues' = [queues EXCEPT ![rec.date] = Append(@, rec.user)]
         /\ IF queues[rec.date] = <<>>
            THEN /\ processingTimeouts' = processingTimeouts \cup {rec.date}
                 /\ armed' = armed \cup {[date |-> rec.date, at |-> ProcessTime(now)]}
            ELSE UNCHANGED <<processingTimeouts, armed>>

\* handleReservation: validation and routing, then either addToQueue or
\* reserveSpot up to its getReservation.
StartReservation(t, u, d, serial) ==
    /\ CanStart(t, serial)
    /\ opsStarted' = opsStarted + 1
    /\ LET r == Route(now, d)
           rec == Begin("reserve", u, d)
       IN  IF r = "queue" THEN AddToQueue(t, rec)
           ELSE /\ QueueUnchanged
                /\ IF r # "reserve"
                   THEN task' = [task EXCEPT ![t] = Done(rec, r)]
                   ELSE IF AlreadyReserved(reservations, u, d)
                   THEN task' = [task EXCEPT ![t] = Done(rec, "duplicate")]
                   ELSE task' = [task EXCEPT ![t] = [rec EXCEPT !.pc = "rs_flex"]]
    /\ DbUnchanged /\ EnvUnchanged
    /\ UNCHANGED <<offers, spotOffers>>

\* Which branch one date of handleMultipleReservations takes: webhookBot
\* passes every date to QueueManager.handleReservation, bot.js checks
\* isValidReservationTime and calls reserveSpot without asking the queue.
RouteMultiple(t, d) ==
    IF frontend = "webhook" THEN Route(t, d)
    ELSE IF ~ isValidReservationTime(t, d) THEN "invalid_time"
    ELSE "reserve"

\* handleMultipleReservations, one date of intent.dates: routing, then
\* either addToQueue or reserveSpot up to its getReservation.
StartMultipleReservation(t, u, d, serial) ==
    /\ CanStart(t, serial)
    /\ opsStarted' = opsStarted + 1
    /\ LET r == RouteMultiple(now, d)
           rec == Begin("reserve_multi", u, d)
       IN  IF r = "queue" THEN AddToQueue(t, rec)
           ELSE /\ QueueUnchanged
                /\ IF r # "reserve"
                   THEN task' = [task EXCEPT ![t] = Done(rec, r)]
                   ELSE IF AlreadyReserved(reservations, u, d)
                   THEN task' = [task EXCEPT ![t] = Done(rec, "duplicate")]
                   ELSE task' = [task EXCEPT ![t] = [rec EXCEPT !.pc = "rs_flex"]]
    /\ DbUnchanged /\ EnvUnchanged
    /\ UNCHANGED <<offers, spotOffers>>

\* getAvailableSpot, first query (flex pool)
ReserveFlex(t) ==
    /\ task[t].pc = "rs_flex"
    /\ LET free == FreeFlexSpots(reservations, parking_spots, task[t].date) IN
       IF free # {}
       THEN task' = [task EXCEPT ![t].pc = "rs_insert", ![t].spot = FirstByNumber(free)]
       ELSE task' = [task EXCEPT ![t].pc = "rs_fixed"]
    /\ DbUnchanged /\ QueueUnchanged /\ EnvUnchanged
    /\ UNCHANGED <<offers, spotOffers, opsStarted>>

\* getAvailableSpot, released fixed spots (the query has no ORDER BY); with
\* none free reserveSpot returns {waitlist: true} and the handler sends the
\* waitlist offer (bot.js handleMultipleReservations only lists the date as
\* not reserved).
ReserveFixed(t) ==
    /\ task[t].pc = "rs_fixed"
    /\ LET free == FreeReleasedSpots(reservations, fixed_spot_releases, task[t].date) IN
       IF free # {}
       THEN /\ \E s \in free :
                 task' = [task EXCEPT ![t].pc = "rs_insert", ![t].spot = s]
            /\ UNCHANGED offers
       ELSE /\ task' = [task EXCEPT ![t] = Done(task[t], "waitlist")]
            /\ offers' = IF task[t].kind = "reserve_multi" /\ frontend = "polling"
                         THEN offers
                         ELSE offers \cup {<<task[t].user, task[t].date>>}
    /\ DbUnchanged /\ QueueUnchanged /\ EnvUnchanged
    /\ UNCHANGED <<spotOffers, opsStarted>>

\* reserveSpot: createReservation; a rejected INSERT is an exception that
\* reaches the handler ("Error interno").
ReserveInsert(t) ==
    /\ task[t].pc = "rs_insert"
    /\ reservations' = createReservation(reservations, task[t].user, task[t].date, task[t].spot)
    /\ IF InsertAllowed(reservations, task[t].user, task[t].date, task[t].spot)
       THEN task' = [task EXCEPT ![t] = [Done(task[t], "success") EXCEPT !.spot = task[t].spot]]
       ELSE task' = [task EXCEPT ![t] = [Done(task[t], "error") EXCEPT !.spot = task[t].spot]]
    /\ UNCHANGED <<parking_spots, fixed_spots, fixed_spot_releases, waitlist>>
    /\ QueueUnchanged /\ EnvUnchanged
    /\ UNCHANGED <<offers, spotOffers, opsStarted>>

\* ------------------------------------------------------------------ waitlist
\* addToWaitlist, first statement: the next position
SelectNextPosition(t, rec) ==
    task' = [task EXCEPT ![t] = [rec EXCEPT !.pc = "wl_insert",
                                            !.pos = NextPosition(waitlist, rec.date)]]

\* handleCallbackQuery, "waitlist_yes": the keyboard of an earlier offer.
StartWaitlistYes(t, u, d, serial) ==
    /\ CanStart(t, serial)
    /\ <<u, d>> \in offers
    /\ opsStarted' = opsStarted + 1
    /\ SelectNextPosition(t, Begin("waitlist_yes", u, d))
    /\ DbUnchanged /\ QueueUnchanged /\ EnvUnchanged
    /\ UNCHANGED <<offers, spotOffers>>

\* ParkingManager.addToWaitlist called for any user (the storage API).
StartEnqueue(t, u, d, serial) ==
    /\ CanStart(t, serial)
    /\ opsStarted' = opsStarted + 1
    /\ SelectNextPosition(t, Begin("enqueue", u, d))
    /\ DbUnchanged /\ QueueUnchanged /\ EnvUnchanged
    /\ UNCHANGED <<offers, spotOffers>>

\* processQueuedReservation: addToWaitlist for the current requester
QueuedWaitlistSelect(t) ==
    /\ task[t].pc = "wl_select"
    /\ SelectNextPosition(t, task[t])
    /\ DbUnchanged /\ QueueUnchanged /\ EnvUnchanged
    /\ UNCHANGED <<offers, spotOffers, opsStarted>>

\* processQueue: results.push(...) and the next iteration of the loop
Advance(rec, outcome) ==
    [rec EXCEPT !.results = [@ EXCEPT ![CurUser(rec)] = outcome],
                !.idx = @ + 1, !.spot = NoSpot, !.pos = 0,
                !.pc = IF rec.idx = Len(rec.order) THEN "pq_notify" ELSE "pq_check"]

\* addToWaitlist, second statement: the INSERT.  The callback handler then
\* replaces the offer by a confirmation text; processQueuedReservation
\* reports {waitlist: true}; a rejected INSERT is an exception.
WaitlistInsert(t) ==
    /\ task[t].pc = "wl_insert"
    /\ waitlist' = insertWaitlist(waitlist, CurUser(task[t]), task[t].date, task[t].pos)
    /\ LET ok == WaitlistInsertAllowed(waitlist, CurUser(task[t]), task[t].date) IN
       IF task[t].kind = "lottery"
       THEN /\ task' = [task EXCEPT ![t] = Advance(task[t], IF ok THEN "waitlist" ELSE "error")]
            /\ UNCHANGED offers
       ELSE /\ task' = [task EXCEPT ![t] = Done(task[t], IF ok THEN "waitlisted" ELSE "error")]
            /\ offers' = IF ok /\ task[t].kind = "waitlist_yes"
                         THEN offers \ {<<task[t].user, task[t].date>>} ELSE offers
    /\ UNCHANGED <<parking_spots, fixed_spots, fixed_spot_releases, reservations>>
    /\ QueueUnchanged /\ EnvUnchanged
    /\ UNCHANGED <<spotOffers, opsStarted>>

\* What the caller of removeFromWaitlist does when it returns:
\* notifyWaitlist notifies the new holder, assignWaitlistSpot returns true,
\* the "decline" branch of bot.js goes on to notifyWaitlist.
AfterRemove(rec) ==
    IF rec.kind = "release"
    THEN [Done(rec, "handed_off") EXCEPT !.spot = rec.spot, !.wl0 = rec.wl0]
    ELSE IF rec.kind = "accept" THEN Done(rec, "assigned")
    ELSE IF rec.kind = "remove" THEN [Done(rec, "removed") EXCEPT !.pos = rec.pos]
    ELSE [rec EXCEPT !.pc = "po_next"]

\* notifyWaitlist then sends "te hemos asignado el estacionamiento" to the
\* new holder inside its own try/catch and returns true either way; the
\* users whose message could not be delivered are kept in "failed".
DeliveryFailures(rec) ==
    IF rec.kind = "release" THEN SUBSET {rec.head} ELSE {{}}

\* removeFromWaitlist, first statement: the position of the entry; without
\* an entry it resolves 0 at once.
SelectPosition(t, rec) ==
    LET rows == WaitlistRows(waitlist, rec.head, rec.date) IN
    IF rows = {}
    THEN \E F \in DeliveryFailures(rec) :
            task' = [task EXCEPT ![t] = [AfterRemove(rec) EXCEPT !.failed = F]]
    ELSE \E w \in rows :
            task' = [task EXCEPT ![t] = [rec EXCEPT !.pc = "rm_delete", !.pos = w.position]]

\* ParkingManager.removeFromWaitlist called for any user (the storage API).
StartRemove(t, u, d, serial) ==
    /\ CanStart(t, serial)
    /\ opsStarted' = opsStarted + 1
    /\ SelectPosition(t, [Begin("remove", u, d) EXCEPT !.head = u])
    /\ DbUnchanged /\ QueueUnchanged /\ EnvUnchanged
    /\ UNCHANGED <<offers, spotOffers>>

\* removeFromWaitlist called by notifyWaitlist or assignWaitlistSpot after
\* their createReservation
RemoveSelect(t) ==
    /\ task[t].pc = "rm_select"
    /\ SelectPosition(t, task[t])
    /\ DbUnchanged /\ QueueUnchanged /\ EnvUnchanged
    /\ UNCHANGED <<offers, spotOffers, opsStarted>>

\* removeFromWaitlist, second statement: the DELETE
RemoveDelete(t) ==
    /\ task[t].pc = "rm_delete"
    /\ waitlist' = deleteWaitlist(waitlist, task[t].head, task[t].date)
    /\ task' = [task EXCEPT ![t].pc = "rm_update"]
    /\ UNCHANGED <<parking_spots, fixed_spots, fixed_spot_releases, reservations>>
    /\ QueueUnchanged /\ EnvUnchanged
    /\ UNCHANGED <<offers, spotOffers, opsStarted>>

\* The rows the UPDATE of removeFromWaitlist changes (this.changes).
ShiftedRows(wl, d, p) == {w \in wl : w.date = d /\ w.position > p}

\* removeFromWaitlist, third statement: the compaction; the call resolves
\* with this.changes of the UPDATE (kept for a direct call of the storage
\* API, the other callers ignore it).
RemoveUpdate(t) ==
    /\ task[t].pc = "rm_update"
    /\ waitlist' = shiftWaitlist(waitlist, task[t].date, task[t].pos)
    /\ \E F \in DeliveryFailures(task[t]) :
          task' = [task EXCEPT ![t] =
                     [AfterRemove(task[t]) EXCEPT
                        !.failed = F,
                        !.returned =
                           IF task[t].kind = "remove"
                           THEN Cardinality(ShiftedRows(waitlist, task[t].date, task[t].pos))
                           ELSE 0]]
    /\ UNCHANGED <<parking_spots, fixed_spots, fixed_spot_releases, reservations>>
    /\ QueueUnchanged /\ EnvUnchanged
    /\ UNCHANGED <<offers, spotOffers, opsStarted>>

\* -------------------------------------------------------------------- release
\* handleRelease: releaseSpot up to its getReservation
StartRelease(t, u, d, serial) ==
    /\ CanStart(t, serial)
    /\ opsStarted' = opsStarted + 1
    /\ LET s == getReservation(reservations, u, d)
           rec == Begin("release", u, d)
       IN  IF s = NoSpot
           THEN task' = [task EXCEPT ![t] = Done(rec, "no_reservation")]
           ELSE task' = [task EXCEPT ![t] = [rec EXCEPT !.pc = "rl_delete", !.spot = s]]
    /\ DbUnchanged /\ QueueUnchanged /\ EnvUnchanged
    /\ UNCHANGED <<offers, spotOffers>>

\* releaseSpot: deleteReservation.  webhookBot then awaits the confirmation
\* message, and a failed send is an exception that ends the handler before
\* notifyWaitlist; bot.js sends the message without waiting.  wl0 remembers
\* the waitlist of the date at the moment of the release.
ReleaseDelete(t) ==
    /\ task[t].pc = "rl_delete"
    /\ reservations' = deleteReservation(reservations, task[t].user, task[t].date)
    /\ IF frontend = "webhook"
       THEN \E delivered \in BOOLEAN :
              IF delivered
              THEN task' = [task EXCEPT ![t].pc = "nw_next",
                                        ![t].wl0 = WaitlistOf(waitlist, task[t].date)]
              ELSE task' = [task EXCEPT ![t] =
                              [Done(task[t], "error") EXCEPT
                                 !.spot = task[t].spot,
                                 !.wl0 = WaitlistOf(waitlist, task[t].date)]]
       ELSE task' = [task EXCEPT ![t].pc = "po_next",
                                 ![t].wl0 = WaitlistOf(waitlist, task[t].date)]
    /\ UNCHANGED <<parking_spots, fixed_spots, fixed_spot_releases, waitlist>>
    /\ QueueUnchanged /\ EnvUnchanged
    /\ UNCHANGED <<offers, spotOffers, opsStarted>>

\* queueManager.notifyWaitlist: getNextInWaitlist
NotifyNext(t) ==
    /\ task[t].pc = "nw_next"
    /\ LET rows == HeadRows(waitlist, task[t].date) IN
       IF rows = {}
       THEN task' = [task EXCEPT ![t] =
                       [Done(task[t], "released") EXCEPT
                          !.spot = task[t].spot, !.wl0 = task[t].wl0]]
       ELSE \E w \in rows :
                task' = [task EXCEPT ![t].pc = "nw_insert", ![t].head = w.user_id]
    /\ DbUnchanged /\ QueueUnchanged /\ EnvUnchanged
    /\ UNCHANGED <<offers, spotOffers, opsStarted>>

\* queueManager.notifyWaitlist: createReservation for the head entry; a
\* rejected INSERT is caught and notifyWaitlist returns false.
NotifyInsert(t) ==
    /\ task[t].pc = "nw_insert"
    /\ reservations' = createReservation(reservations, task[t].head, task[t].date, task[t].spot)
    /\ IF InsertAllowed(reservations, task[t].head, task[t].date, task[t].spot)
       THEN task' = [task EXCEPT ![t].pc = "rm_select"]
       ELSE task' = [task EXCEPT ![t] =
                       [Done(task[t], "not_handed_off") EXCEPT
                          !.spot = task[t].spot, !.wl0 = task[t].wl0]]
    /\ UNCHANGED <<parking_spots, fixed_spots, fixed_spot_releases, waitlist>>
    /\ QueueUnchanged /\ EnvUnchanged
    /\ UNCHANGED <<offers, spotOffers, opsStarted>>

\* bot.js notifyWaitlist: the freed spot is offered to the head entry.
PollingNotifyNext(t) ==
    /\ task[t].pc = "po_next"
    /\ LET rows == HeadRows(waitlist, task[t].date) IN
       IF rows = {}
       THEN /\ task' = [task EXCEPT ![t] = Done(task[t], "released")]
            /\ UNCHANGED spotOffers
       ELSE \E w \in rows :
              /\ task' = [task EXCEPT ![t] = Done(task[t], "offered")]
              /\ spotOffers' = spotOffers \cup {<<w.user_id, task[t].date, task[t].spot>>}
    /\ DbUnchanged /\ QueueUnchanged /\ EnvUnchanged
    /\ UNCHANGED <<offers, opsStarted>>

\* bot.js handleCallbackQuery, "accept_spot": assignWaitlistSpot up to its
\* getWaitlistUser; the answer replaces the keyboard.
StartAccept(t, u, d, s, serial) ==
    /\ CanStart(t, serial)
    /\ <<u, d, s>> \in spotOffers
    /\ opsStarted' = opsStarted + 1
    /\ LET rec == [Begin("accept", u, d) EXCEPT !.spot = s, !.head = u] IN
       IF WaitlistRows(waitlist, u, d) = {}
       THEN /\ task' = [task EXCEPT ![t] = Done(rec, "not_assigned")]
            /\ spotOffers' = spotOffers \ {<<u, d, s>>}
       ELSE /\ task' = [task EXCEPT ![t] = [rec EXCEPT !.pc = "aw_insert"]]
            /\ UNCHANGED spotOffers
    /\ DbUnchanged /\ QueueUnchanged /\ EnvUnchanged
    /\ UNCHANGED <<offers>>

\* assignWaitlistSpot: createReservation; a rejected INSERT is an exception
\* caught by handleCallbackQuery.
AssignInsert(t) ==
    /\ task[t].pc = "aw_insert"
    /\ reservations' = createReservation(reservations, task[t].user, task[t].date, task[t].spot)
    /\ IF InsertAllowed(reservations, task[t].user, task[t].date, task[t].spot)
       THEN /\ task' = [task EXCEPT ![t].pc = "rm_select"]
            /\ spotOffers' = spotOffers \ {<<task[t].user, task[t].date, task[t].spot>>}
       ELSE /\ task' = [task EXCEPT ![t] = Done(task[t], "error")]
            /\ UNCHANGED spotOffers
    /\ UNCHANGED <<parking_spots, fixed_spots, fixed_spot_releases, waitlist>>
    /\ QueueUnchanged /\ EnvUnchanged
    /\ UNCHANGED <<offers, opsStarted>>

\* bot.js handleCallbackQuery, "decline_spot": removeFromWaitlist; the
\* callback data carries no spot number, so the spot passed on to
\* notifyWaitlist is undefined.
StartDecline(t, u, d, serial) ==
    /\ CanStart(t, serial)
    /\ \E s \in {o[3] : o \in {x \in spotOffers : x[1] = u /\ x[2] = d}} :
         spotOffers' = spotOffers \ {<<u, d, s>>}
    /\ opsStarted' = opsStarted + 1
    /\ SelectPosition(t, [Begin("decline", u, d) EXCEPT !.spot = UndefinedSpot, !.head = u])
    /\ DbUnchanged /\ QueueUnchanged /\ EnvUnchanged
    /\ UNCHANGED <<offers>>

\* -------------------------------------------------------------------- lottery
\* [...queue].sort(() => Math.random() - 0.5): any order of the same entries
Shuffles(q) ==
    {o \in [1..Len(q) -> Users] :
        /\ \A i, j \in 1..Len(q) : i # j => o[i] # o[j]
        /\ {o[i] : i \in 1..Len(q)} = {q[i] : i \in 1..Len(q)}}

FreeSpots(res, spots, rel, d) ==
    FreeFlexSpots(res, spots, d) \cup FreeReleasedSpots(res, rel, d)

\* The setTimeout callback of scheduleQueueProcessing: processQueue up to
\* its first await.  k0 remembers how many spots were free at the shuffle.
TimerFire(t, d) ==
    /\ Free(t)
    /\ \A o \in Tasks : o < t => ~ Free(o)
    /\ \E a \in armed :
         /\ a.date = d
         /\ a.at <= now
         /\ armed' = armed \ {a}
    /\ IF queues[d] = <<>>
       THEN task' = [task EXCEPT ![t] = Done(Begin("lottery", NoUser, d), "empty")]
       ELSE \E o \in Shuffles(queues[d]) :
              task' = [task EXCEPT ![t] = [Begin("lottery", NoUser, d) EXCEPT
                         !.pc = "pq_check", !.order = o, !.idx = 1,
                         !.k0 = Cardinality(FreeSpots(reservations, parking_spots,
                                                      fixed_spot_releases, d))]]
    /\ DbUnchanged /\ EnvUnchanged
    /\ UNCHANGED <<queues, processingTimeouts, offers, spotOffers, opsStarted>>

\* processQueuedReservation: getReservation
QueuedCheck(t) ==
    /\ task[t].pc = "pq_check"
    /\ IF AlreadyReserved(reservations, CurUser(task[t]), task[t].date)
       THEN task' = [task EXCEPT ![t] = Advance(task[t], "duplicate")]
       ELSE task' = [task EXCEPT ![t].pc = "pq_flex"]
    /\ DbUnchanged /\ QueueUnchanged /\ EnvUnchanged
    /\ UNCHANGED <<offers, spotOffers, opsStarted>>

\* processQueuedReservation: getAvailableSpot, first query
QueuedFlex(t) ==
    /\ task[t].pc = "pq_flex"
    /\ LET free == FreeFlexSpots(reservations, parking_spots, task[t].date) IN
       IF free # {}
       THEN task' = [task EXCEPT ![t].pc = "pq_insert", ![t].spot = FirstByNumber(free)]
       ELSE task' = [task EXCEPT ![t].pc = "pq_fixed"]
    /\ DbUnchanged /\ QueueUnchanged /\ EnvUnchanged
    /\ UNCHANGED <<offers, spotOffers, opsStarted>>

\* processQueuedReservation: getAvailableSpot, released fixed spots; with
\* none free the requester goes to the waitlist.
QueuedFixed(t) ==
    /\ task[t].pc = "pq_fixed"
    /\ LET free == FreeReleasedSpots(reservations, fixed_spot_releases, task[t].date) IN
       IF free # {}
       THEN \E s \in free :
                task' = [task EXCEPT ![t].pc = "pq_insert", ![t].spot = s]
       ELSE task' = [task EXCEPT ![t].pc = "wl_select"]
    /\ DbUnchanged /\ QueueUnchanged /\ EnvUnchanged
    /\ UNCHANGED <<offers, spotOffers, opsStarted>>

\* processQueuedReservation: createReservation; processQueue catches a
\* rejected INSERT and records "Error procesando tu solicitud".
QueuedInsert(t) ==
    /\ task[t].pc = "pq_insert"
    /\ reservations' = createReservation(reservations, CurUser(task[t]), task[t].date, task[t].spot)
    /\ IF InsertAllowed(reservations, CurUser(task[t]), task[t].date, task[t].spot)
       THEN task' = [task EXCEPT ![t] = Advance(task[t], "success")]
       ELSE task' = [task EXCEPT ![t] = Advance(task[t], "error")]
    /\ UNCHANGED <<parking_spots, fixed_spots, fixed_spot_releases, waitlist>>
    /\ QueueUnchanged /\ EnvUnchanged
    /\ UNCHANGED <<offers, spotOffers, opsStarted>>

\* processQueue: notifyQueueResults (one sendMessage per result, each in
\* its own try/catch; "failed" keeps the users whose message could not be
\* delivered), then the buffer and the map entry of the timer are deleted.
QueueFinish(t) ==
    /\ task[t].pc = "pq_notify"
    /\ queues' = [queues EXCEPT ![task[t].date] = <<>>]
    /\ processingTimeouts' = processingTimeouts \ {task[t].date}
    /\ \E F \in SUBSET {task[t].order[i] : i \in 1..Len(task[t].order)} :
          task' = [task EXCEPT ![t] = [Done(task[t], "resolved") EXCEPT
                                         !.order = task[t].order,
                                         !.results = task[t].results,
                                         !.k0 = task[t].k0,
                                         !.failed = F]]
    /\ DbUnchanged /\ EnvUnchanged
    /\ UNCHANGED <<armed, offers, spotOffers, opsStarted>>

\* ------------------------------------------------- clearing and weekly reset
\* clearAllReservations issues DELETE FROM reservations at once (it is the
\* first statement of the handlers that call it) and DELETE FROM waitlist
\* from the callback of the first.  This is the second statement; the
\* weekly reset ends here, setParkingSpots goes on to replace the pool.
ClearWaitlist(t) ==
    /\ task[t].pc = "ca_waitlist"
    /\ waitlist' = {}
    /\ task' = [task EXCEPT ![t] =
                  IF task[t].kind = "set_parking"
                  THEN [task[t] EXCEPT !.pc = "sp_replace"]
                  ELSE Done(task[t], "cleared")]
    /\ UNCHANGED <<parking_spots, fixed_spots, fixed_spot_releases, reservations>>
    /\ QueueUnchanged /\ EnvUnchanged
    /\ UNCHANGED <<offers, spotOffers, opsStarted>>

\* /setparking (supervisor): parkingManager.setParkingSpots first calls
\* clearAllReservations, whose first DELETE is issued at once.
StartSetParking(t, spots, serial) ==
    /\ CanStart(t, serial)
    /\ opsStarted' = opsStarted + 1
    /\ reservations' = {}
    /\ task' = [task EXCEPT ![t] =
                  [Begin("set_parking", NoUser, 0) EXCEPT !.pc = "ca_waitlist",
                                                           !.spots = spots]]
    /\ UNCHANGED <<parking_spots, fixed_spots, fixed_spot_releases, waitlist>>
    /\ QueueUnchanged /\ EnvUnchanged
    /\ UNCHANGED <<offers, spotOffers>>

\* db.setParkingSpots: DELETE FROM parking_spots and one INSERT per number,
\* queued together inside db.serialize.
SetParkingReplace(t) ==
    /\ task[t].pc = "sp_replace"
    /\ parking_spots' = task[t].spots
    /\ task' = [task EXCEPT ![t] = Done(task[t], "pool_set")]
    /\ UNCHANGED <<fixed_spots, fixed_spot_releases, reservations, waitlist>>
    /\ QueueUnchanged /\ EnvUnchanged
    /\ UNCHANGED <<offers, spotOffers, opsStarted>>

\* now.day() === 5 && now.hour() === 17 && now.minute() === 0
isWeeklyResetTime(t) ==
    /\ Dow(DayOf(t)) = 5
    /\ HourOf(t) = 17
    /\ MinuteOf(t) = 0

\* The setInterval callback of setupScheduler (bot.js only): every hour
\* checkWeeklyReset looks at the clock and, in the minute 17:00 of a
\* Friday, calls clearAllReservations, whose first DELETE is issued in the
\* same turn.
CheckWeeklyReset(t) ==
    /\ frontend = "polling"
    /\ weeklyResetDue <= now
    /\ weeklyResetDue' = weeklyResetDue + 60
    /\ Free(t)
    /\ \A o \in Tasks : o < t => ~ Free(o)
    /\ IF isWeeklyResetTime(now)
       THEN /\ task' = [task EXCEPT ![t] =
                          [Begin("weekly_reset", NoUser, 0) EXCEPT !.pc = "ca_waitlist"]]
            /\ weeklyResets' = weeklyResets + 1
            /\ reservations' = {}
       ELSE UNCHANGED <<task, weeklyResets, reservations>>
    /\ UNCHANGED <<parking_spots, fixed_spots, fixed_spot_releases, waitlist>>
    /\ QueueUnchanged
    /\ UNCHANGED <<now, frontend, offers, spotOffers, opsStarted>>

\* Mutant: clearAllQueues without its clearTimeout loop.
ClearAllQueues_KeepTimers ==
    /\ queues' = [d \in DOMAIN queues |-> <<>>]
    /\ processingTimeouts' = {}
    /\ DbUnchanged /\ EnvUnchanged
    /\ UNCHANGED <<armed, offers, spotOffers, task, opsStarted>>

\* clearAllQueues (synchronous): clearTimeout for every id kept in
\* processingTimeouts, then both maps are emptied.  A processQueue that is
\* already running keeps its shuffled copy and goes on.
ClearAllQueues ==
    /\ armed' = {a \in armed : a.date \notin processingTimeouts}
    /\ queues' = [d \in DOMAIN queues |-> <<>>]
    /\ processingTimeouts' = {}
    /\ DbUnchanged /\ EnvUnchanged
    /\ UNCHANGED <<offers, spotOffers, task, opsStarted>>

\* ------------------------------------------------------------- specification
Start(t, serial) ==
    \/ \E u \in Users, d \in Dates : StartReservation(t, u, d, serial)
    \/ \E u \in Users, d \in Dates : StartWaitlistYes(t, u, d, serial)
    \/ \E u \in Users, d \in Dates : StartRelease(t, u, d, serial)
    \/ \E u \in Users, d \in Dates, s \in InitialSpots \cup {UndefinedSpot} :
            StartAccept(t, u, d, s, serial)
    \/ \E u \in Users, d \in Dates : StartDecline(t, u, d, serial)

Step(t) ==
    \/ ReserveFlex(t) \/ ReserveFixed(t) \/ ReserveInsert(t)
    \/ WaitlistInsert(t)
    \/ RemoveSelect(t) \/ RemoveDelete(t) \/ RemoveUpdate(t)
    \/ ReleaseDelete(t)
    \/ NotifyNext(t) \/ NotifyInsert(t) \/ PollingNotifyNext(t)
    \/ AssignInsert(t)
    \/ QueuedCheck(t) \/ QueuedFlex(t) \/ QueuedFixed(t) \/ QueuedInsert(t)
    \/ QueuedWaitlistSelect(t) \/ QueueFinish(t)

\* Handlers interleave at every await.
Next ==
    \/ Tick
    \/ \E t \in Tasks : Start(t, FALSE)
    \/ \E t \in Tasks, d \in Dates : TimerFire(t, d)
    \/ \E t \in Tasks : Step(t)

Spec == Init /\ [][Next]_vars

\* The waitlist operations of the storage layer on their own, one call at
\* a time.
NextWaitlistSeq ==
    \/ \E t \in Tasks, u \in Users, d \in Dates : StartEnqueue(t, u, d, TRUE)
    \/ \E t \in Tasks, u \in Users, d \in Dates : StartRemove(t, u, d, TRUE)
    \/ \E t \in Tasks : WaitlistInsert(t)
    \/ \E t \in Tasks : RemoveDelete(t)
    \/ \E t \in Tasks : RemoveUpdate(t)

SpecWaitlistSeq == Init /\ [][NextWaitlistSeq]_vars

EnqueueInFlight == \E o \in Tasks : task[o].kind = "enqueue" /\ ~ Free(o)
RemoveInFlight == \E o \in Tasks : task[o].kind = "remove" /\ ~ Free(o)

\* A removal and an enqueue running at the same time: at most one call of
\* each kind is in flight, their statements interleave freely.
NextRemoveVsEnqueue ==
    \/ \E t \in Tasks, u \in Users, d \in Dates :
            ~ EnqueueInFlight /\ StartEnqueue(t, u, d, FALSE)
    \/ \E t \in Tasks, u \in Users, d \in Dates :
            ~ RemoveInFlight /\ StartRemove(t, u, d, FALSE)
    \/ \E t \in Tasks : WaitlistInsert(t)
    \/ \E t \in Tasks : RemoveDelete(t)
    \/ \E t \in Tasks : RemoveUpdate(t)

SpecRemoveVsEnqueue == Init /\ [][NextRemoveVsEnqueue]_vars

\* The lottery among booking requests: requests that interleave freely,
\* the clock, the timers and the resolution of the buffers.
StepLottery(t) ==
    \/ ReserveFlex(t) \/ ReserveFixed(t) \/ ReserveInsert(t)
    \/ QueuedCheck(t) \/ QueuedFlex(t) \/ QueuedFixed(t) \/ QueuedInsert(t)
    \/ QueuedWaitlistSelect(t) \/ WaitlistInsert(t) \/ QueueFinish(t)

NextLottery ==
    \/ Tick
    \/ \E t \in Tasks, u \in Users, d \in Dates : StartReservation(t, u, d, FALSE)
    \/ \E t \in Tasks, d \in Dates : TimerFire(t, d)
    \/ \E t \in Tasks : StepLottery(t)

SpecLottery == Init /\ [][NextLottery]_vars

\* Time passes, a due timer runs its callback, and an awaited statement
\* completes and its handler goes on.
SpecLotteryLive ==
    /\ SpecLottery
    /\ WF_vars(Tick)
    /\ WF_vars(\E t \in Tasks, d \in Dates : TimerFire(t, d))
    /\ WF_vars(\E t \in Tasks : StepLottery(t))

\* The buffers with their timers and the flush: clearAllQueues is a public
\* method of QueueManager (its caller in src/ is /clearqueues of bot.js)
\* and may be called at any moment on the QueueManager that buffers.
NextQueueTimers ==
    \/ NextLottery
    \/ ClearAllQueues

SpecQueueTimers == Init /\ [][NextQueueTimers]_vars

\* Hand-offs and lottery resolutions with their messages, one handler at
\* a time: a request or a timer callback starts when no other handler is
\* in flight.
NextNotify ==
    \/ Tick
    \/ \E t \in Tasks : Start(t, TRUE)
    \/ \E t \in Tasks, d \in Dates :
          (\A o \in Tasks : Free(o)) /\ TimerFire(t, d)
    \/ \E t \in Tasks : Step(t)

SpecNotify == Init /\ [][NextNotify]_vars

\* The Friday cutover: the clock runs minute by minute from 16:59 to
\* 17:01 and a due interval callback runs before the minute is over.  The
\* hourly interval of bot.js started with the process, so its callback may
\* fall on any minute; the webhook front end has no such interval.  The
\* database holds rows for today, the last day of the ending cycle.
ResetStartNow == 8219
ResetEndNow == 8221
\* Friday of the ending cycle and Monday of the next one.
ResetDates == {5, 8}

InitWeeklyReset ==
    /\ now = ResetStartNow
    /\ frontend \in {"webhook", "polling"}
    /\ parking_spots = InitialSpots
    /\ fixed_spots = {}
    /\ fixed_spot_releases = {}
    /\ \E h \in 0..Cardinality(InitialSpots), w \in 0..NumUsers :
         /\ h + w <= NumUsers
         /\ w > 0 => h = Cardinality(InitialSpots)
         /\ PersistedRows(5, h, w, 0)
    /\ queues = [d \in Dates |-> <<>>]
    /\ processingTimeouts = {}
    /\ armed = {}
    /\ spotOffers = {}
    /\ task = [t \in Tasks |-> Idle]
    /\ opsStarted = 0
    /\ weeklyResetDue \in IF frontend = "polling"
                          THEN ResetStartNow..ResetEndNow
                          ELSE {ResetEndNow + 60}
    /\ weeklyResets = 0

TickMinute ==
    /\ now < ResetEndNow
    /\ weeklyResetDue > now
    /\ now' = now + 1
    /\ UNCHANGED <<frontend, parking_spots, fixed_spots, fixed_spot_releases,
                   reservations, waitlist, queues, processingTimeouts, armed,
                   offers, spotOffers, task, opsStarted, weeklyResetDue,
                   weeklyResets>>

NextWeeklyReset ==
    \/ TickMinute
    \/ \E t \in Tasks : CheckWeeklyReset(t)
    \/ \E t \in Tasks : ClearWaitlist(t)
    \/ \E t \in Tasks, u \in Users, d \in ResetDates : StartReservation(t, u, d, FALSE)
    \/ \E t \in Tasks, u \in Users, d \in ResetDates : StartWaitlistYes(t, u, d, FALSE)
    \/ \E t \in Tasks : ReserveFlex(t)
    \/ \E t \in Tasks : ReserveFixed(t)
    \/ \E t \in Tasks : ReserveInsert(t)
    \/ \E t \in Tasks : WaitlistInsert(t)

SpecWeeklyReset == InitWeeklyReset /\ [][NextWeeklyReset]_vars

\* The supervisor replaces the flex pool while users book.
NewPools == {{1}, {2, 3}}

NextSetParking ==
    \/ \E t \in Tasks, p \in NewPools : StartSetParking(t, p, FALSE)
    \/ \E t \in Tasks : ClearWaitlist(t)
    \/ \E t \in Tasks : SetParkingReplace(t)
    \/ \E t \in Tasks, u \in Users, d \in Dates : StartReservation(t, u, d, FALSE)
    \/ \E t \in Tasks : ReserveFlex(t)
    \/ \E t \in Tasks : ReserveFixed(t)
    \/ \E t \in Tasks : ReserveInsert(t)

SpecSetParking == Init /\ [][NextSetParking]_vars

\* The allocator on its own: one request at a time, after the Friday
\* window, for Monday 8 or Tuesday 9, on a flex pool whose numbers have one
\* or two digits, with any of the release rows below in the table and the
\* flex pool of Monday either free or taken by users 1 and 2.
AllocDates == {8, 9}
AllocPools == {{1, 2}, {2, 10}}
AllocFixed == {8, 9}
AllocReleases ==
    {[id |-> 1, spot_number |-> 8, start_date |-> 8, end_date |-> 9],
     [id |-> 2, spot_number |-> 9, start_date |-> 8, end_date |-> 8],
     [id |-> 3, spot_number |-> 9, start_date |-> 9, end_date |-> 9]}

InitAllocator ==
    /\ now = EndNow
    /\ frontend \in {"webhook", "polling"}
    /\ parking_spots \in AllocPools
    /\ fixed_spots = AllocFixed
    /\ fixed_spot_releases \in SUBSET AllocReleases
    /\ \E full \in BOOLEAN :
         reservations =
            IF full
            THEN {[user_id |-> 1, date |-> 8,
                   spot_number |-> FirstByNumber(parking_spots)],
                  [user_id |-> 2, date |-> 8,
                   spot_number |-> FirstByNumber(parking_spots
                                                   \ {FirstByNumber(parking_spots)})]}
            ELSE {}
    /\ waitlist = {}
    /\ offers = {}
    /\ queues = [d \in Dates |-> <<>>]
    /\ processingTimeouts = {}
    /\ armed = {}
    /\ spotOffers = {}
    /\ task = [t \in Tasks |-> Idle]
    /\ opsStarted = 0
    /\ weeklyResetDue = now + 60
    /\ weeklyResets = 0

NextAllocator ==
    \/ \E t \in Tasks, u \in Users, d \in AllocDates : StartReservation(t, u, d, TRUE)
    \/ \E t \in Tasks : ReserveFlex(t)
    \/ \E t \in Tasks : ReserveFixed(t)
    \/ \E t \in Tasks : ReserveInsert(t)

SpecAllocator == InitAllocator /\ [][NextAllocator]_vars

\* ---------------------------------------------------------------------
\* Releases of fixed spots (database.js): each function is one statement.

\* The id the next INSERT INTO fixed_spot_releases gets; the id only keeps
\* equal releases of a spot apart.
NextReleaseId(rel) ==
    IF rel = {} THEN 1
    ELSE 1 + (CHOOSE m \in {r.id : r \in rel} : \A r \in rel : r.id <= m)

\* The rows every release of spot s is deleted with, whatever its dates.
ReleasesToDelete_AllOfSpot(rel, s, today) == {r \in rel : r.spot_number = s}

\* DELETE FROM fixed_spot_releases WHERE spot_number = ? AND end_date >= ?
ReleasesToDelete(rel, s, today) ==
    {r \in rel : r.spot_number = s /\ r.end_date >= today}

\* releaseFixedSpot(spotNumber, startDate, endDate): the INSERT, resolving
\* with the new row's id.
releaseFixedSpot(t, s, d1, d2) ==
    /\ CanStart(t, FALSE)
    /\ opsStarted' = opsStarted + 1
    /\ fixed_spot_releases' = fixed_spot_releases \cup
          {[id |-> NextReleaseId(fixed_spot_releases), spot_number |-> s,
            start_date |-> d1, end_date |-> d2]}
    /\ task' = [task EXCEPT ![t] =
                  [Done(Begin("fixed_release", NoUser, d1), "released")
                      EXCEPT !.spot = s,
                             !.returned = NextReleaseId(fixed_spot_releases)]]
    /\ UNCHANGED <<parking_spots, fixed_spots, reservations, waitlist>>
    /\ QueueUnchanged /\ EnvUnchanged
    /\ UNCHANGED <<offers, spotOffers>>

\* removeFixedSpotRelease(spotNumber): the DELETE with today's date,
\* resolving with this.changes.
removeFixedSpotRelease(t, s) ==
    /\ CanStart(t, FALSE)
    /\ opsStarted' = opsStarted + 1
    /\ LET gone == ReleasesToDelete(fixed_spot_releases, s, DayOf(now)) IN
       /\ fixed_spot_releases' = fixed_spot_releases \ gone
       /\ task' = [task EXCEPT ![t] =
                     [Done(Begin("fixed_removal", NoUser, DayOf(now)), "removed")
                         EXCEPT !.spot = s, !.returned = Cardinality(gone)]]
    /\ UNCHANGED <<parking_spots, fixed_spots, reservations, waitlist>>
    /\ QueueUnchanged /\ EnvUnchanged
    /\ UNCHANGED <<offers, spotOffers>>

\* Releases and withdrawals on Monday 8 at 10:00, with fixed spots 8 and 9,
\* spot 7 not fixed, and any of the rows below already in the table: one
\* ended on Saturday, one ending today, one for later days, one of spot 9.
ReleaseNow == 12120
ReleaseSpots == {7, 8, 9}
ReleaseDays == {8, 9}
StoredReleases ==
    {[id |-> 1, spot_number |-> 8, start_date |-> 5, end_date |-> 6],
     [id |-> 2, spot_number |-> 8, start_date |-> 8, end_date |-> 8],
     [id |-> 3, spot_number |-> 8, start_date |-> 9, end_date |-> 10],
     [id |-> 4, spot_number |-> 9, start_date |-> 8, end_date |-> 9]}

InitFixedRelease ==
    /\ now = ReleaseNow
    /\ frontend \in {"webhook", "polling"}
    /\ parking_spots = InitialSpots
    /\ fixed_spots = AllocFixed
    /\ fixed_spot_releases \in SUBSET StoredReleases
    /\ reservations = {}
    /\ waitlist = {}
    /\ offers = {}
    /\ queues = [d \in Dates |-> <<>>]
    /\ processingTimeouts = {}
    /\ armed = {}
    /\ spotOffers = {}
    /\ task = [t \in Tasks |-> Idle]
    /\ opsStarted = 0
    /\ weeklyResetDue = now + 60
    /\ weeklyResets = 0

NextFixedRelease ==
    \/ \E t \in Tasks, s \in ReleaseSpots, d1 \in ReleaseDays, d2 \in ReleaseDays :
          d1 <= d2 /\ releaseFixedSpot(t, s, d1, d2)
    \/ \E t \in Tasks, s \in ReleaseSpots : removeFixedSpotRelease(t, s)

SpecFixedRelease == InitFixedRelease /\ [][NextFixedRelease]_vars

\* getDayStatus: one row for every active flex spot and for every fixed
\* spot released for the date, each with the reservation it carries.
getDayStatus(res, spots, rel, d) ==
    {[spot_number |-> s, reserved |-> SpotReserved(res, d, s)] :
        s \in spots \cup getReleasedFixedSpots(rel, d)}

\* The allocator together with the withdrawal of releases.
NextWithdraw ==
    \/ NextAllocator
    \/ \E t \in Tasks, s \in AllocFixed : removeFixedSpotRelease(t, s)

SpecWithdraw == InitAllocator /\ [][NextWithdraw]_vars

\* ---------------------------------------------------------------------
\* The daily cleanup (webhookBot.js setupAutomaticCleanup, database.js
\* cleanupExpiredReservations).

\* The cleanup with tomorrow as its limit.
CleanupLimit_Tomorrow(t) == DayOf(t) + 1

\* moment().subtract(1, 'day').format('YYYY-MM-DD')
CleanupLimit(t) == DayOf(t) - 1

\* The setTimeout of scheduleNextCleanup: tomorrow at 00:30.  It is kept
\* with the other timers, under no date.
CleanupTimer(t) == [date |-> 0, at |-> (DayOf(t) + 1) * 1440 + 30]

\* The timer callback up to the first statement of
\* cleanupExpiredReservations: DELETE FROM reservations WHERE date < ?
CleanupFire(t) ==
    /\ frontend = "webhook"
    /\ Free(t)
    /\ \A o \in Tasks : o < t => ~ Free(o)
    /\ \E a \in armed :
         /\ a.date = 0
         /\ a.at <= now
         /\ armed' = armed \ {a}
    /\ reservations' = {r \in reservations : ~ (r.date < CleanupLimit(now))}
    /\ task' = [task EXCEPT ![t] =
                  [Begin("cleanup", NoUser, CleanupLimit(now)) EXCEPT !.pc = "cl_waitlist"]]
    /\ UNCHANGED <<parking_spots, fixed_spots, fixed_spot_releases, waitlist>>
    /\ EnvUnchanged
    /\ UNCHANGED <<queues, processingTimeouts, offers, spotOffers, opsStarted>>

\* cleanupExpiredReservations, second statement: DELETE FROM waitlist
\* WHERE date < ?; the callback then reports to the supervisor and
\* schedules the next cleanup.
CleanupWaitlist(t) ==
    /\ task[t].pc = "cl_waitlist"
    /\ waitlist' = {w \in waitlist : ~ (w.date < task[t].date)}
    /\ armed' = armed \cup {CleanupTimer(now)}
    /\ task' = [task EXCEPT ![t] = Done(task[t], "cleaned")]
    /\ UNCHANGED <<parking_spots, fixed_spots, fixed_spot_releases, reservations>>
    /\ EnvUnchanged
    /\ UNCHANGED <<queues, processingTimeouts, offers, spotOffers, opsStarted>>

\* Tuesday 9 at 23:50 to Wednesday 10 at 00:50.  The database holds full
\* days: Friday 5 and Monday 8 always, and any of Tuesday 9, Wednesday 10
\* and Thursday 11; user 3 may wait for any of the days held.
CleanupStartNow == 14390
CleanupEndNow == 14450
CleanupTick == 20
CleanupOldDays == {5, 8}
CleanupDays == {9, 10, 11}
CleanupReleaseDay == 10

InitCleanup ==
    /\ now = CleanupStartNow
    /\ frontend \in {"webhook", "polling"}
    /\ parking_spots = InitialSpots
    /\ fixed_spots = {}
    /\ fixed_spot_releases = {}
    /\ \E R \in SUBSET CleanupDays :
         /\ reservations = {[user_id |-> u, date |-> d, spot_number |-> u] :
                               u \in {1, 2}, d \in CleanupOldDays \cup R}
         /\ \E W \in SUBSET (CleanupOldDays \cup R) :
               waitlist = {[user_id |-> 3, date |-> d, position |-> 1] : d \in W}
    /\ offers = {}
    /\ queues = [d \in Dates |-> <<>>]
    /\ processingTimeouts = {}
    /\ armed = IF frontend = "webhook" THEN {CleanupTimer(now)} ELSE {}
    /\ spotOffers = {}
    /\ task = [t \in Tasks |-> Idle]
    /\ opsStarted = 0
    /\ weeklyResetDue = now + 60
    /\ weeklyResets = 0

TickCleanup ==
    /\ now + CleanupTick <= CleanupEndNow
    /\ now' = now + CleanupTick
    /\ UNCHANGED <<frontend, parking_spots, fixed_spots, fixed_spot_releases, reservations,
                   waitlist, queues, processingTimeouts, armed, offers,
                   spotOffers, task, opsStarted, weeklyResetDue, weeklyResets>>

NextCleanup ==
    \/ TickCleanup
    \/ \E t \in Tasks : CleanupFire(t)
    \/ \E t \in Tasks : CleanupWaitlist(t)
    \/ \E t \in Tasks, u \in Users : StartRelease(t, u, CleanupReleaseDay, TRUE)
    \/ \E t \in Tasks : ReleaseDelete(t)
    \/ \E t \in Tasks : NotifyNext(t)
    \/ \E t \in Tasks : NotifyInsert(t)
    \/ \E t \in Tasks : PollingNotifyNext(t)
    \/ \E t \in Tasks : RemoveSelect(t)
    \/ \E t \in Tasks : RemoveDelete(t)
    \/ \E t \in Tasks : RemoveUpdate(t)

SpecCleanup == InitCleanup /\ [][NextCleanup]_vars

\* The date rules on their own: one request, single-date or one date of a
\* multi-date request, sent at any of the sampled instants of days
\* 1..LastDay for any date 1..LastDate, on an empty database or on one
\* whose pool is taken on every date by users 1 and 2.
ValidationDates == 1..LastDate

\* 00:00, 16:59, 17:00, 17:14, 17:15 and 23:59 of every day
ValidationNows ==
    {d * 1440 + m : d \in 1..LastDay, m \in {0, 1019, 1020, 1034, 1035, 1439}}

InitValidation ==
    /\ now \in ValidationNows
    /\ frontend \in {"webhook", "polling"}
    /\ parking_spots = InitialSpots
    /\ fixed_spots = {}
    /\ fixed_spot_releases = {}
    /\ \E full \in BOOLEAN :
         reservations =
            IF full
            THEN {[user_id |-> s, date |-> d, spot_number |-> s] :
                     s \in InitialSpots, d \in ValidationDates}
            ELSE {}
    /\ waitlist = {}
    /\ offers = {}
    /\ queues = [d \in ValidationDates |-> <<>>]
    /\ processingTimeouts = {}
    /\ armed = {}
    /\ spotOffers = {}
    /\ task = [t \in Tasks |-> Idle]
    /\ opsStarted = 0
    /\ weeklyResetDue = now + 60
    /\ weeklyResets = 0

NextValidation ==
    \/ \E t \in Tasks, u \in Users, d \in ValidationDates :
            opsStarted = 0 /\ StartReservation(t, u, d, TRUE)
    \/ \E t \in Tasks, u \in Users, d \in ValidationDates :
            opsStarted = 0 /\ StartMultipleReservation(t, u, d, TRUE)
    \/ \E t \in Tasks : ReserveFlex(t)
    \/ \E t \in Tasks : ReserveFixed(t)
    \/ \E t \in Tasks : ReserveInsert(t)

SpecValidation == InitValidation /\ [][NextValidation]_vars

\* ================================================================= properties
UserHolds(res, u, d) == ReservationsOf(res, u, d) # {}

\* Task t took a step of its handler.
Stepped(t) == ~ Free(t) /\ task'[t] # task[t]

\* Task t is the invocation that has just been started.
Started(t) == opsStarted' = opsStarted + 1 /\ CanStart(t, FALSE)

\* The positions of date d are exactly 1..N.
Contiguous(wl, d) ==
    {w.position : w \in WaitlistOf(wl, d)} = 1..Cardinality(WaitlistOf(wl, d))

\* C1: in every reachable state no two reservations share a date and a
\* spot, whatever the interleaving of bookings, lottery resolution and
\* waitlist hand-offs.
C1_OneReservationPerDateSpot ==
    \A r1, r2 \in reservations :
        (r1.date = r2.date /\ r1.spot_number = r2.spot_number) => r1 = r2

\* A booking lost the race for a spot: its INSERT was rejected because
\* another user had taken the spot it had picked.
C1_Witness ==
    \E t \in Tasks :
        /\ task[t].kind = "reserve" /\ task[t].result = "error"
        /\ \E r \in reservations :
              /\ r.date = task[t].date /\ r.spot_number = task[t].spot
              /\ r.user_id # task[t].user

\* C2: a user never holds two reservations for one date, and a booking
\* request (direct or resolved from the lottery buffer) of a user who
\* holds a reservation for the date is answered "already reserved" and
\* leaves the reservations as they are.
C2_NoDoubleBooking ==
    /\ [](\A r1, r2 \in reservations :
            (r1.user_id = r2.user_id /\ r1.date = r2.date) => r1 = r2)
    /\ [][\A t \in Tasks :
            /\ ( /\ Started(t)
                 /\ task'[t].kind = "reserve"
                 /\ Route(now, task'[t].date) = "reserve"
                 /\ UserHolds(reservations, task'[t].user, task'[t].date) )
               => ( /\ task'[t].pc = "done" /\ task'[t].result = "duplicate"
                    /\ reservations' = reservations )
            /\ ( /\ task[t].pc = "pq_check" /\ Stepped(t)
                 /\ UserHolds(reservations, CurUser(task[t]), task[t].date) )
               => ( /\ task'[t].results[CurUser(task[t])] = "duplicate"
                    /\ reservations' = reservations )
         ]_vars

\* A request was answered "already reserved" and the user still holds
\* exactly the reservation made before.
C2_Witness ==
    \E t \in Tasks :
        /\ task[t].kind = "reserve" /\ task[t].result = "duplicate"
        /\ Cardinality(ReservationsOf(reservations, task[t].user, task[t].date)) = 1

\* C3: a booking request that lost the race for the last free spot of its
\* date ends with the no-spot outcome (waitlist offer), never with an
\* exception.
C3_LoserGetsNoSpotOutcome ==
    [][\A t \in Tasks :
         ( /\ task[t].pc = "rs_insert" /\ Stepped(t)
           /\ ~ UserHolds(reservations, task[t].user, task[t].date)
           /\ SpotReserved(reservations, task[t].date, task[t].spot)
           /\ FreeSpots(reservations, parking_spots, fixed_spot_releases,
                        task[t].date) = {} )
         => task'[t].result = "waitlist"
      ]_vars

\* C4: when the INSERT of an allocation is rejected because a concurrent
\* caller took the chosen spot and another spot is still free for the
\* date, the allocation is retried and does not end with the conflict.
C4_ConflictRetriedWhileSpotsFree ==
    [][\A t \in Tasks :
         ( /\ task[t].pc \in {"rs_insert", "pq_insert"} /\ Stepped(t)
           /\ ~ UserHolds(reservations, CurUser(task[t]), task[t].date)
           /\ SpotReserved(reservations, task[t].date, task[t].spot)
           /\ FreeSpots(reservations, parking_spots, fixed_spot_releases,
                        task[t].date) # {} )
         => ( /\ task'[t].result # "error"
              /\ task'[t].results[CurUser(task[t])] # "error" )
      ]_vars

\* C5: when no waitlist operation is in progress, the positions of every
\* date are exactly 1..N.
C5_ContiguousAfterOperations ==
    (\A t \in Tasks : Free(t)) => \A d \in Dates : Contiguous(waitlist, d)

\* An entry that was not the last one of its date has been removed and the
\* entries behind it have moved up.
C5_Witness ==
    \E t \in Tasks :
        /\ task[t].kind = "remove" /\ task[t].result = "removed"
        /\ task[t].pos >= 1
        /\ \A o \in Tasks : Free(o)
        /\ \E w \in WaitlistOf(waitlist, task[t].date) : w.position >= task[t].pos
        /\ WaitlistRows(waitlist, task[t].user, task[t].date) = {}

\* C6: a removal and an enqueue on the same date that overlap in time leave
\* the positions of the date exactly 1..N once both have finished.
C6_RemovalAtomicWithEnqueue ==
    \A d \in Dates :
        (\A t \in Tasks : task[t].date = d => Free(t)) => Contiguous(waitlist, d)

\* C7: an enqueue for a user who holds a reservation for the date adds no
\* waitlist entry.
C7_EnqueueRejectedForHolder ==
    [][\A t \in Tasks :
         ( /\ task[t].pc = "wl_insert" /\ Stepped(t)
           /\ UserHolds(reservations, CurUser(task[t]), task[t].date) )
         => waitlist' = waitlist
      ]_vars

\* C8: when the webhook release handler returns, its confirmation message
\* delivered, after releasing a spot of a date whose waitlist was not empty
\* at the moment of the release, the position-1 entry holds the freed
\* spot, is off the waitlist, and the entries behind it have moved up by
\* one in the same order.
C8_ReleaseHandsSpotToHead ==
    [][\A t \in Tasks :
         ( /\ frontend = "webhook"
           /\ task[t].kind = "release"
           /\ Stepped(t) /\ task'[t].pc = "done"
           /\ task'[t].result # "error"
           /\ task'[t].wl0 # {} )
         => \E h \in task'[t].wl0 :
              /\ h.position = 1
              /\ [user_id |-> h.user_id, date |-> task[t].date,
                  spot_number |-> task'[t].spot] \in reservations'
              /\ WaitlistOf(waitlist', task[t].date) =
                    {[w EXCEPT !.position = w.position - 1] : w \in task'[t].wl0 \ {h}}
      ]_vars

\* C9: when the resolution of a buffer of N requests that began with K < N
\* free spots finishes, exactly K of the requesters hold a reservation for
\* the date and the other N - K are on its waitlist.
C9_LotteryCounts ==
    [][\A t \in Tasks :
         ( /\ task[t].pc = "pq_notify" /\ Stepped(t)
           /\ task[t].k0 < Len(task[t].order) )
         => LET req == {task[t].order[i] : i \in 1..Len(task[t].order)}
                holders == {u \in req : UserHolds(reservations', u, task[t].date)}
                waiting == {u \in req : WaitlistRows(waitlist', u, task[t].date) # {}}
            IN  /\ Cardinality(holders) = task[t].k0
                /\ waiting = req \ holders
      ]_vars

\* The lottery of date d is between its shuffle and the resolution of its
\* last entry.
LotteryResolving(d) ==
    \E l \in Tasks :
        /\ task[l].kind = "lottery" /\ task[l].date = d
        /\ task[l].pc \in {"pq_check", "pq_flex", "pq_fixed", "pq_insert",
                           "wl_select", "wl_insert"}

\* C10: while the lottery of a date is being resolved, no direct booking
\* request for that date changes the reservations.
C10_LotteryIsCriticalSection ==
    [][\A t \in Tasks :
         ( /\ task[t].kind = "reserve" /\ Stepped(t)
           /\ LotteryResolving(task[t].date) )
         => reservations' = reservations
      ]_vars

\* ------------------------------------------------------------ date rules
\* The Monday-Friday after the Friday of instant t.
UpcomingCycle(t) == (SetDay(DayOf(t), 5) + 3)..(SetDay(DayOf(t), 5) + 7)

BookingKinds == {"reserve", "reserve_multi"}

\* C11: while the fairness window is open, a single-date or multi-date
\* request for a date of the upcoming Monday-Friday is answered as queued
\* and changes neither the reservations nor the waitlist, and no
\* reservation for such a date is written while the window is open.
C11_WindowRequestsAreBuffered ==
    [][ /\ \A t \in Tasks :
             ( /\ Started(t) /\ task'[t].kind \in BookingKinds
               /\ isInQueuePeriod(now)
               /\ task'[t].date \in UpcomingCycle(now) )
             => ( /\ task'[t].result = "queued"
                  /\ reservations' = reservations
                  /\ waitlist' = waitlist )
        /\ isInQueuePeriod(now)
             => \A r \in reservations' \ reservations : r.date \notin UpcomingCycle(now)
      ]_vars

\* ---------------------------------------------------------------- lottery
Entries(q) == {q[i] : i \in 1..Len(q)}

\* notifyQueueResults has sent user u the outcome of the lottery of date d.
Notified(u, d) ==
    \E t \in Tasks :
        /\ task[t].kind = "lottery" /\ task[t].pc = "done"
        /\ task[t].date = d /\ task[t].results[u] # "none"

UserWaits(wl, u, d) == \E w \in wl : w.user_id = u /\ w.date = d

\* C13: when processQueue finishes a date, the buffer of the date is gone
\* and every user that was in it holds a reservation or a waitlist entry
\* for the date.
C13_ResolvedUsersHoldReservationOrWaitlist ==
    [][\A t \in Tasks :
          (task[t].pc = "pq_notify" /\ Stepped(t)) =>
             /\ queues'[task[t].date] = <<>>
             /\ task[t].date \notin processingTimeouts'
             /\ \A u \in Entries(task[t].order) :
                   \/ UserHolds(reservations', u, task[t].date)
                   \/ UserWaits(waitlist', u, task[t].date)]_vars

\* The place of user u in the buffer q (1 = first to ask).
QueuePosition(q, u) == CHOOSE i \in 1..Len(q) : q[i] = u

\* C14: a request that is routed to the buffer while its user is already
\* in the buffer of the date is answered "already queued", the answer
\* carries the user's position in the buffer, and the buffer stays as it
\* was.
C14_DuplicateBufferedRequestRejectedWithPosition ==
    [][\A t \in Tasks :
          (/\ Started(t)
           /\ task'[t].kind \in BookingKinds
           /\ Route(now, task'[t].date) = "queue"
           /\ InQueue(queues[task'[t].date], task'[t].user)) =>
             /\ task'[t].result = "already_queued"
             /\ queues' = queues
             /\ task'[t].pos = QueuePosition(queues[task'[t].date], task'[t].user)]_vars

\* A resolution of the buffer of date d is running in slot t.
Resolving(t, d) ==
    task[t].kind = "lottery" /\ task[t].date = d /\ task[t].pc # "done"

\* Nothing is buffered and no timer is pending.
Cleared ==
    /\ \A d \in DOMAIN queues : queues[d] = <<>>
    /\ processingTimeouts = {}
    /\ armed = {}

BeforeCutover(t) ==
    /\ Dow(DayOf(t)) \in 1..5
    /\ ~ (Dow(DayOf(t)) = 5 /\ HourOf(t) >= 17)

\* Monday to Friday of the week after the week of instant t.
FollowingCycle(t) == (SetDay(DayOf(t), 1) + 7)..(SetDay(DayOf(t), 5) + 7)

\* The request is answered at once with a refusal of kind r and touches
\* neither the tables nor the buffers.
Refused(t, r) ==
    /\ task'[t].pc = "done"
    /\ task'[t].result \in r
    /\ reservations' = reservations
    /\ waitlist' = waitlist
    /\ queues' = queues

\* C16: from Monday until Friday 16:59 a request for a weekday of the
\* following week is refused as locked and creates no reservation, no
\* buffer entry and no waitlist entry.
C16_NextCycleLockedBeforeCutover ==
    [][\A t \in Tasks :
          (/\ Started(t)
           /\ task'[t].kind \in BookingKinds
           /\ BeforeCutover(now)
           /\ task'[t].date \in FollowingCycle(now)) =>
             Refused(t, {"locked", "invalid_time"})]_vars

\* Monday of the active cycle: the week of t from Sunday to Friday 16:59,
\* the week after it from Friday 17:00 and on Saturday.
ActiveCycleStart(t) ==
    IF BeforeCutover(t) \/ Dow(DayOf(t)) = 0
    THEN SetDay(DayOf(t), 1)
    ELSE SetDay(DayOf(t), 1) + 7

ActiveCycle(t) == ActiveCycleStart(t)..(ActiveCycleStart(t) + 4)

\* The cycle that follows the active one.
NextCycle(t) == (ActiveCycleStart(t) + 7)..(ActiveCycleStart(t) + 11)

Refusals == {"past", "weekend", "locked", "invalid_time"}

\* C17: a request for a date outside the active cycle and outside the cycle
\* after it is refused and changes no state.
C17_DatesBeyondNextCycleRejected ==
    [][\A t \in Tasks :
          (/\ Started(t)
           /\ task'[t].kind \in BookingKinds
           /\ task'[t].date \notin ActiveCycle(now) \cup NextCycle(now)) =>
             Refused(t, Refusals)]_vars

InFairnessWindow(t) ==
    /\ Dow(DayOf(t)) = 5
    /\ 17 * 60 <= t % 1440
    /\ t % 1440 < 17 * 60 + 15

\* C19: outside the Friday window no request is buffered, and a request
\* for a day of the cycle that the last cutover opened goes to the
\* allocator and is answered with a reservation or with "no spot".
C19_AfterWindowStraightToAllocator ==
    /\ [][\A t \in Tasks :
             (/\ Started(t)
              /\ task'[t].kind \in BookingKinds
              /\ ~ InFairnessWindow(now)) =>
                /\ task'[t].result \notin {"queued", "already_queued"}
                /\ queues' = queues
                /\ processingTimeouts' = processingTimeouts
                /\ armed' = armed]_vars
    /\ [](\A t \in Tasks :
             (/\ ~ InFairnessWindow(now)
              /\ task[t].kind \in BookingKinds
              /\ task[t].date \in ActiveCycle(now)
              /\ task[t].date >= DayOf(now)) =>
                /\ task[t].pc \in {"rs_flex", "rs_fixed", "rs_insert", "done"}
                /\ task[t].pc = "done" =>
                      task[t].result \in {"success", "waitlist", "duplicate"})

\* Friday 17:15 or later, full pool: a request for a day of the upcoming
\* week was answered "no spot" at once and nothing was buffered.
C19_Witness ==
    \E t \in Tasks :
       /\ Dow(DayOf(now)) = 5 /\ now % 1440 >= 17 * 60 + 15
       /\ task[t].kind \in BookingKinds
       /\ task[t].date \in ActiveCycle(now)
       /\ task[t].result = "waitlist"
       /\ \A d \in DOMAIN queues : queues[d] = <<>>
       /\ armed = {}

\* C20: a request for a Saturday or a Sunday is refused at every instant
\* and creates no reservation, no buffer entry and no waitlist entry.
C20_WeekendDateAlwaysRejected ==
    [][\A t \in Tasks :
          (/\ Started(t)
           /\ task'[t].kind \in BookingKinds
           /\ Dow(task'[t].date) \in {0, 6}) =>
             Refused(t, {"weekend", "past", "invalid_time"})]_vars

\* A request for a coming Saturday was refused as a weekend date and the
\* requester holds nothing for that day.
C20_Witness ==
    \E t \in Tasks :
       /\ task[t].kind \in BookingKinds
       /\ Dow(task[t].date) = 6
       /\ task[t].date > DayOf(now)
       /\ task[t].pc = "done"
       /\ task[t].result = "weekend"
       /\ ~ UserHolds(reservations, task[t].user, task[t].date)
       /\ ~ UserWaits(waitlist, task[t].user, task[t].date)
       /\ queues[task[t].date] = <<>>

\* C21: a request for a date before today's calendar day is refused and
\* changes no state.
C21_PastDateRejected ==
    [][\A t \in Tasks :
          (/\ Started(t)
           /\ task'[t].kind \in BookingKinds
           /\ task'[t].date < DayOf(now)) =>
             Refused(t, Refusals)]_vars

\* Monday to Friday of the week of instant t, the cycle that ends at the
\* Friday cutover.
EndingCycle(t) == SetDay(DayOf(t), 1)..SetDay(DayOf(t), 5)

\* The weekly reset issues its first DELETE / runs its second DELETE.
WeeklyResetStarts == weeklyResets' = weeklyResets + 1

WeeklyResetStep(t) ==
    task[t].kind = "weekly_reset" /\ task[t].pc = "ca_waitlist" /\ Stepped(t)

\* C22: the weekly reset deletes the reservations and the waitlist entries
\* of the ending Monday-Friday cycle and nothing else: the rows of later
\* dates that exist when it runs are still there afterwards.
C22_ResetDeletesOnlyEndingCycle ==
    [][/\ WeeklyResetStarts =>
             reservations' = {r \in reservations : r.date \notin EndingCycle(now)}
       /\ \A t \in Tasks :
             WeeklyResetStep(t) =>
                waitlist' = {w \in waitlist : w.date \notin EndingCycle(now)}]_vars

\* C23: the reset of a cutover comes before any booking for the cycle that
\* opens at that cutover: when the reset deletes the reservations, no
\* reservation for a day after the ending cycle exists yet.
C23_ResetBeforeOpen ==
    [][WeeklyResetStarts =>
          ~ \E r \in reservations : r.date > SetDay(DayOf(now), 5)]_vars

\* The minute 17:00 of the Friday of instant t is over.
CutoverPassed(t) ==
    /\ Dow(DayOf(t)) = 5
    /\ t > DayOf(t) * 1440 + 17 * 60

\* C24: the weekly reset runs once for the Friday 17:00 that passes while
\* the process is running: it is not skipped and it is not repeated.
C24_ResetExactlyOncePerCutover ==
    /\ CutoverPassed(now) => weeklyResets = 1
    /\ weeklyResets <= 1

\* C25: replacing the flex pool deletes and alters no reservation: every
\* row present before a step of setParkingSpots is present after it.
C25_SetParkingSpotsKeepsReservations ==
    [][\A t \in Tasks :
          ((Started(t) /\ task'[t].kind = "set_parking")
             \/ (task[t].kind = "set_parking" /\ Stepped(t)))
          => reservations \subseteq reservations']_vars

\* Task t has just been given spot s by getAvailableSpot.
Allocated(t) ==
    /\ task[t].kind \in BookingKinds
    /\ task[t].pc \in {"rs_flex", "rs_fixed"}
    /\ task'[t].pc = "rs_insert"

\* Spot s has no reservation row for day d.
Unreserved(s, d) == ~ \E r \in reservations : r.spot_number = s /\ r.date = d

\* Spot s has a release row whose range holds day d.
ReleasedFor(s, d) ==
    \E r \in fixed_spot_releases :
       r.spot_number = s /\ r.start_date <= d /\ d <= r.end_date

\* C26: a released fixed spot is given out only when no flex spot is free
\* for the date: with a free flex spot the allocator returns a free flex
\* spot, and with none free and a released fixed spot free for the date it
\* returns a free fixed spot whose release range holds the date.
C26_FlexBeforeReleasedFixed ==
    [][\A t \in Tasks :
          /\ (Allocated(t)
              /\ \E s \in parking_spots : Unreserved(s, task[t].date))
                => /\ task'[t].spot \in parking_spots
                   /\ Unreserved(task'[t].spot, task[t].date)
          /\ (Allocated(t)
              /\ ~ \E s \in parking_spots : Unreserved(s, task[t].date))
                => /\ ReleasedFor(task'[t].spot, task[t].date)
                   /\ Unreserved(task'[t].spot, task[t].date)
          /\ (task[t].kind \in BookingKinds /\ task[t].pc = "rs_fixed" /\ Stepped(t)
              /\ \E s \in AllocFixed :
                    ReleasedFor(s, task[t].date) /\ Unreserved(s, task[t].date))
                => task'[t].pc = "rs_insert"]_vars

\* The flex pool of Monday was taken and a third user was given the fixed
\* spot released for that day.
C26_Witness ==
    \E t \in Tasks :
       /\ task[t].kind \in BookingKinds
       /\ task[t].result = "success"
       /\ task[t].spot \in AllocFixed
       /\ task[t].spot \notin parking_spots
       /\ [user_id |-> task[t].user, date |-> task[t].date,
           spot_number |-> task[t].spot] \in reservations
       /\ \A s \in parking_spots : SpotReserved(reservations, task[t].date, s)

C28_LowestFreeReleasedSpotAssigned ==
    [][\A t \in Tasks :
          (Allocated(t) /\ task[t].pc = "rs_fixed")
             => /\ ReleasedFor(task'[t].spot, task[t].date)
                /\ Unreserved(task'[t].spot, task[t].date)
                /\ \A s \in AllocFixed \ {task'[t].spot} :
                      (ReleasedFor(s, task[t].date) /\ Unreserved(s, task[t].date))
                         => TextLess(task'[t].spot, s)]_vars

\* Task t has just run releaseFixedSpot.
ReleaseRequested(t) ==
    /\ Started(t)
    /\ task'[t].kind = "fixed_release"

\* C29: releasing a spot that is not in the fixed pool is rejected and
\* records no release interval.
C29_ReleaseOfNonFixedSpotRejected ==
    [][\A t \in Tasks :
          (ReleaseRequested(t) /\ task'[t].spot \notin fixed_spots)
             => /\ fixed_spot_releases' = fixed_spot_releases
                /\ task'[t].result = "NotFixedSpot"]_vars

\* Task t has just run removeFixedSpotRelease.
RemovalRequested(t) ==
    /\ Started(t)
    /\ task'[t].kind = "fixed_removal"

\* C30: withdrawing the release of a spot removes exactly that spot's
\* intervals whose end date is today or later, keeps its ended intervals
\* and every interval of other spots, and returns the number removed.
C30_WithdrawalRemovesLiveIntervalsOfSpot ==
    [][\A t \in Tasks :
          RemovalRequested(t)
             => /\ fixed_spot_releases' \subseteq fixed_spot_releases
                /\ \A r \in fixed_spot_releases :
                      r \notin fixed_spot_releases'
                         <=> (r.spot_number = task'[t].spot
                              /\ r.end_date >= DayOf(now))
                /\ task'[t].returned
                      = Cardinality(fixed_spot_releases \ fixed_spot_releases')]_vars

\* A withdrawal for spot 8 removed two intervals and left the one that had
\* ended and the one of spot 9.
C30_Witness ==
    \E t \in Tasks :
       /\ task[t].kind = "fixed_removal"
       /\ task[t].pc = "done"
       /\ task[t].spot = 8
       /\ task[t].returned = 2
       /\ \E r \in fixed_spot_releases :
             r.spot_number = 8 /\ r.end_date < DayOf(now)
       /\ \E r \in fixed_spot_releases : r.spot_number = 9
       /\ ~ \E r \in fixed_spot_releases :
             r.spot_number = 8 /\ r.end_date >= DayOf(now)

\* notifyWaitlist of task t has just sent its message to the new holder.
HandOffNotified(t) ==
    /\ ~ Free(t)
    /\ task[t].kind = "release"
    /\ task'[t].result = "handed_off"

\* notifyQueueResults of task t has just sent the outcomes of the lottery.
LotteryNotified(t) ==
    /\ task[t].pc = "pq_notify"
    /\ task'[t].pc = "done"

\* C31: a reservation or waitlist entry is recorded before its message is
\* attempted and a failed message does not undo it: when a hand-off or a
\* lottery resolution has sent its messages, delivered or not, the new
\* holder has the reservation, every winner of the lottery has a
\* reservation, every user the lottery put on the waitlist is on it (or
\* has been handed a spot since), and the step removes no reservation.
C31_RecordedBeforeNotifiedAndKept ==
    [][\A t \in Tasks :
          /\ HandOffNotified(t)
               => /\ [user_id |-> task[t].head, date |-> task[t].date,
                      spot_number |-> task[t].spot] \in reservations'
                  /\ reservations' = reservations
          /\ LotteryNotified(t)
               => /\ \A u \in Users :
                       /\ task[t].results[u] = "success"
                            => UserHolds(reservations', u, task[t].date)
                       /\ task[t].results[u] = "waitlist"
                            => \/ UserWaits(waitlist', u, task[t].date)
                               \/ UserHolds(reservations', u, task[t].date)
                  /\ reservations' = reservations
                  /\ waitlist' = waitlist]_vars

\* A hand-off has ended whose message to the new holder could not be
\* delivered; the holder has the spot and is off the waitlist.
C31_Witness ==
    \E t \in Tasks :
       /\ task[t].kind = "release"
       /\ task[t].result = "handed_off"
       /\ task[t].failed # {}
       /\ \A u \in task[t].failed :
             /\ [user_id |-> u, date |-> task[t].date,
                 spot_number |-> task[t].spot] \in reservations
             /\ ~ UserWaits(waitlist, u, task[t].date)

C33_EnqueueAtTailHeadIsEarliest ==
    [][\A d \in Dates :
          /\ \A w \in WaitlistOf(waitlist', d) :
                (~ UserWaits(waitlist, w.user_id, d))
                   => /\ \A o \in WaitlistOf(waitlist, d) : o.position < w.position
                      /\ \/ w.position = 1 /\ WaitlistOf(waitlist, d) = {}
                         \/ \E o \in WaitlistOf(waitlist, d) : o.position = w.position - 1
          /\ \A a, b \in WaitlistOf(waitlist, d) :
                \A a2, b2 \in WaitlistOf(waitlist', d) :
                   (a2.user_id = a.user_id /\ b2.user_id = b.user_id
                      /\ a.position < b.position)
                   => a2.position < b2.position
          /\ Cardinality(HeadRows(waitlist', d)) <= 1]_vars

\* Two users were enqueued behind a waiting one, the head was removed, and
\* the first of the two is now the head with the other behind.
C33_Witness ==
    \E t \in Tasks :
       /\ task[t].kind = "remove"
       /\ task[t].pc = "done"
       /\ task[t].result = "removed"
       /\ task[t].pos = 1
       /\ \E a, b \in WaitlistOf(waitlist, task[t].date) :
             a.position = 1 /\ b.position = 2 /\ a.user_id # b.user_id

\* C34: the released fixed spots the allocator can hand out for a date are
\* exactly the spots with a release row whose range, first and last day
\* included, holds the date and with no reservation for the date; the
\* allocator never assigns a fixed spot for a date outside every release
\* range of the spot.
C34_ReleasedSpotAllocatableInsideRange ==
    /\ [](\A d \in 7..10 :
             FreeReleasedSpots(reservations, fixed_spot_releases, d)
               = {s \in AllocFixed :
                    /\ \E r \in fixed_spot_releases :
                          r.spot_number = s /\ r.start_date <= d /\ d <= r.end_date
                    /\ ~ \E r \in reservations : r.spot_number = s /\ r.date = d})
    /\ [][\A t \in Tasks :
             (Allocated(t) /\ task'[t].spot \in AllocFixed)
                => /\ \E r \in fixed_spot_releases :
                         /\ r.spot_number = task'[t].spot
                         /\ r.start_date <= task[t].date
                         /\ task[t].date <= r.end_date
                   /\ ~ \E r \in reservations :
                         r.spot_number = task'[t].spot /\ r.date = task[t].date]_vars

\* Spot 9, released for Monday 8 alone, was reserved for Monday 8, and is
\* not available for Tuesday 9.
C34_Witness ==
    \E t \in Tasks :
       /\ task[t].kind \in BookingKinds
       /\ task[t].result = "success"
       /\ task[t].date = 8
       /\ task[t].spot = 9
       /\ [user_id |-> task[t].user, date |-> 8, spot_number |-> 9] \in reservations
       /\ fixed_spot_releases
            = {[id |-> 2, spot_number |-> 9, start_date |-> 8, end_date |-> 8]}
       /\ FreeReleasedSpots(reservations, fixed_spot_releases, 9) = {}

\* C35: removeFromWaitlist(user, date) returns a value greater than 0
\* whenever it removed the user's entry, at whatever position the entry
\* was, the only or the last entry of the date included.
C35_RemovalReturnsPositive ==
    [][\A t \in Tasks :
          ( /\ task[t].kind = "remove"
            /\ task[t].pc = "rm_update"
            /\ task'[t].pc = "done"
            /\ ~ UserWaits(waitlist', task[t].user, task[t].date) )
          => task'[t].returned > 0]_vars

\* C36: while the waitlist of a date is not empty, a spot of that date that
\* has become free is not given to a direct requester who is not on the
\* waitlist: no booking request of such a user stores a reservation.
C36_FreedSpotNotGivenPastWaitlist ==
    [][\A t \in Tasks :
          ( /\ task[t].kind \in BookingKinds
            /\ task[t].pc = "rs_insert"
            /\ WaitlistOf(waitlist, task[t].date) # {}
            /\ ~ UserWaits(waitlist, task[t].user, task[t].date) )
          => ~ \E r \in reservations' \ reservations :
                  r.user_id = task[t].user /\ r.date = task[t].date]_vars

\* A release of date d that has deleted its reservation is still running
\* in a task other than t.
OtherReleaseInFlight(t, d) ==
    \E o \in Tasks \ {t} :
       task[o].kind = "release" /\ task[o].date = d /\ ~ Free(o)

\* C37: when a release that freed a spot has ended, hand-off included, and
\* no other release of the date is still running, the date does not have
\* a free spot and a non-empty waitlist at the same time.
C37_NoFreeSpotWithWaitlistAfterRelease ==
    [][\A t \in Tasks :
          ( /\ task[t].kind = "release"
            /\ Stepped(t)
            /\ task'[t].pc = "done"
            /\ task'[t].result # "no_reservation"
            /\ ~ OtherReleaseInFlight(t, task[t].date) )
          => ~ ( /\ FreeSpots(reservations', parking_spots', fixed_spot_releases',
                              task[t].date) # {}
                 /\ WaitlistOf(waitlist', task[t].date) # {} )]_vars

\* C38: every reservation of a date is on a spot of the flex pool or on a
\* fixed spot released for the date, and so has its row, marked reserved,
\* in the day status of its date.
C38_ReservationsAppearInDayStatus ==
    \A r \in reservations :
       /\ \/ r.spot_number \in parking_spots
          \/ \E x \in fixed_spot_releases :
                /\ x.spot_number = r.spot_number
                /\ x.start_date <= r.date
                /\ r.date <= x.end_date
       /\ [spot_number |-> r.spot_number, reserved |-> TRUE]
             \in getDayStatus(reservations, parking_spots, fixed_spot_releases, r.date)

\* Task t has just run a statement of cleanupExpiredReservations.
CleanupStep(t) ==
    /\ task'[t].kind = "cleanup"
    /\ task'[t] # task[t]

\* C39: the daily cleanup removes only reservations and waitlist entries
\* dated before yesterday; it removes none dated today or later.
C39_CleanupRemovesOnlyBeforeYesterday ==
    [][\A t \in Tasks :
          CleanupStep(t)
             => /\ \A r \in reservations \ reservations' : r.date < DayOf(now) - 1
                /\ \A w \in waitlist \ waitlist' : w.date < DayOf(now) - 1
                /\ \A r \in reservations : r.date >= DayOf(now) => r \in reservations'
                /\ \A w \in waitlist : w.date >= DayOf(now) => w \in waitlist']_vars

\* The cleanup of Wednesday 10 has run: the rows of Friday 5 and Monday 8
\* are gone, those of Tuesday 9 (yesterday) and of Wednesday 10 are kept.
C39_Witness ==
    \E t \in Tasks :
       /\ task[t].kind = "cleanup"
       /\ task[t].pc = "done"
       /\ DayOf(now) = 10
       /\ ~ \E r \in reservations : r.date < 9
       /\ ~ \E w \in waitlist : w.date < 9
       /\ \E r \in reservations : r.date = 9
       /\ \E r \in reservations : r.date = 10
       /\ \E w \in waitlist : w.date = 9
       /\ \E w \in waitlist : w.date = 10

\* Task t is about to run the INSERT of addToWaitlist for a user who
\* already has an entry for the date.
DuplicateEnqueue(t) ==
    /\ task[t].pc = "wl_insert"
    /\ task'[t] # task[t]
    /\ \E w \in waitlist : w.user_id = CurUser(task[t]) /\ w.date = task[t].date

\* C40: a user never has more than one waitlist entry for a date, and
\* enqueueing a user who is already on the date's waitlist adds no entry
\* and changes no position.
C40_OneWaitlistEntryPerUserAndDate ==
    /\ [](\A w1, w2 \in waitlist :
             (w1.user_id = w2.user_id /\ w1.date = w2.date) => w1 = w2)
    /\ [][\A t \in Tasks : DuplicateEnqueue(t) => waitlist' = waitlist]_vars

\* The same offer answered twice: the second answer was rejected and the
\* user holds the one entry of the first.
C40_Witness ==
    \E t \in Tasks :
       /\ task[t].kind = "waitlist_yes"
       /\ task[t].pc = "done"
       /\ task[t].result = "error"
       /\ Cardinality({w \in waitlist : w.user_id = task[t].user /\ w.date = task[t].date}) = 1
====
